---------------------------- MODULE Spec2Model ----------------------------
(***************************************************************************)
(* The form actions of src/routes/+page.server.ts (bookmark manager):      *)
(* eleven request handlers over a relational database (bookmarks, the      *)
(* bookmarks-to-tags join table, tags, files, categories, users).          *)
(*                                                                         *)
(* A step of the model is one whole request: the handler runs from its     *)
(* authorization check to its return (or to the exception that leaves it). *)
(* The variables req and resp record the request just handled and how the  *)
(* handler ended, so that properties can speak about "the call".           *)
(***************************************************************************)
EXTENDS Integers, Sequences, FiniteSets, TLC

VARIABLES
    bookmarks,        \* bookmarkSchema rows: id -> row
    nextBookmarkId,   \* the id the next inserted bookmark receives
    bookmarksToTags,  \* bookmarksToTagsSchema: the set of distinct <<bookmarkId, tagId>> rows
    tags,             \* tagSchema rows: set of [id, name, ownerId]
    nextTagId,
    files,            \* fileSchema rows: id -> [ownerId]
    nextFileId,
    categories,       \* categorySchema rows: id -> row
    nextCategoryId,
    users,            \* userSchema rows: id -> [settings]
    req,              \* the request just handled
    resp              \* how its handler ended

db == <<bookmarks, nextBookmarkId, bookmarksToTags, tags, nextTagId,
        files, nextFileId, categories, nextCategoryId, users>>

vars == <<bookmarks, nextBookmarkId, bookmarksToTags, tags, nextTagId,
          files, nextFileId, categories, nextCategoryId, users, req, resp>>

----------------------------------------------------------------------------
(* Bounds of the model.                                                    *)

\* The largest bookmark id handed out, per specification.
MaxBookmarkId == 2
MaxAllBookmarkId == 1
MaxTagBookmarkId == 1
MaxImageBookmarkId == 1
\* The largest tag id, file id and category id handed out.
MaxTagId == 2
MaxFileId == 2
MaxCategoryId == 2
MaxAllCategoryId == 1

----------------------------------------------------------------------------
(* Values.                                                                 *)

\* A nullable integer column / an optional JavaScript number: <<>> is
\* null or undefined, <<n>> is the number n.
None == << >>
Some(n) == <<n>>

\* A nullable timestamp column: "NULL", or the instant of the request that
\* wrote it (new Date()); instants are not told apart.
NullDate == "NULL"
NewDate == "now"
DateIfOn(on) == IF on THEN NewDate ELSE NullDate

\* locals.user: absent, or a user record with a numeric id.
NoUser == [present |-> FALSE, id |-> 0]
User(n) == [present |-> TRUE, id |-> n]

\* `!owner` with owner = locals.user?.id : undefined, or the number 0.
IsFalsyOwnerNoZero(user) == ~user.present
IsFalsyOwner(user) == ~user.present \/ user.id = 0

\* JSON values, tagged: null, numbers, strings, booleans, and objects with
\* (at most) a `value` property.
JNull == <<"null">>
JNum(n) == <<"number", n>>
JStr(s) == <<"string", s>>
JBool(b) == <<"boolean", b>>
JObj(v) == <<"object", v>>
JInvalid == <<"SyntaxError">>

\* JSON.parse on the texts the model submits. A form field that is absent
\* reads as null, and JSON.parse(null) is null.
JSONParse(text) ==
    CASE text = "null"               -> JNull
      [] text = "0"                  -> JNum(0)
      [] text = "1"                  -> JNum(1)
      [] text = "2"                  -> JNum(2)
      [] text = "false"              -> JBool(FALSE)
      [] text = "\"\""               -> JStr("")
      [] text = "\"null\""           -> JStr("null")
      [] text = "{\"value\":1}"      -> JObj(JNum(1))
      [] text = "{\"value\":0}"      -> JObj(JNum(0))
      [] text = "{\"value\":\"null\"}" -> JObj(JStr("null"))
      [] text = "{\"value\":null}"   -> JObj(JNull)
      [] OTHER                       -> JInvalid

\* JavaScript truthiness.
Truthy(j) ==
    CASE j[1] = "null"    -> FALSE
      [] j[1] = "number"  -> j[2] # 0
      [] j[1] = "string"  -> j[2] # ""
      [] j[1] = "boolean" -> j[2]
      [] OTHER            -> TRUE

\* `x?.value ? x.value : x`
ResolveValue(j) ==
    IF j[1] = "object" /\ Truthy(j[2]) THEN j[2] ELSE j

\* `parentValue === 'null' ? null : parentValue`
NormalizeParent(parentValue) ==
    IF parentValue = JStr("null") THEN JNull ELSE parentValue

\* checkIfImageURL ($lib/utils/check-if-image-url).
ImageURLs == {"https://x/pic.png"}
CheckIfImageURL(url) == url \in ImageURLs

\* createSlug ($lib/utils/create-slug) on the names the model submits.
CreateSlug(name) ==
    CASE name = "News"    -> "news"
      [] name = "Dev Ops" -> "dev-ops"
      [] OTHER            -> "n-a"

----------------------------------------------------------------------------
(* Requests and responses.                                                 *)

\* What the properties need of a request: the action, locals.user, the id
\* field, the tag ids prepareTags resolved, the main image url, the step at
\* which the environment makes the workflow throw, and the parent field.
Request(action, user, id, tagIds, mainImageUrl, fault, parent) ==
    [action |-> action, user |-> user, id |-> id, tagIds |-> tagIds,
     mainImageUrl |-> mainImageUrl, fault |-> fault, parent |-> parent]

SimpleRequest(action, user, id) ==
    Request(action, user, id, {}, "", "none", "null")

\* A returned result object: the property names it has, and their values
\* (id = 0 when the object carries no id).
Returned(keys, success, error, id) ==
    [outcome |-> "returned", keys |-> keys, success |-> success,
     error |-> error, id |-> id]

\* The exception left the handler: no result object.
Thrown == [outcome |-> "thrown", keys |-> {}, success |-> FALSE,
           error |-> "", id |-> 0]

Unauthorized == Returned({"success", "error"}, FALSE, "Unauthorized", 0)
BareFailure == Returned({"success"}, FALSE, "", 0)
Success == Returned({"success"}, TRUE, "", 0)

\* handlePBError(e, pb, true) ($lib/pb): the generic failure response.
HandlePBError == Returned({"success", "error"}, FALSE, "handlePBError", 0)


----------------------------------------------------------------------------
(* Helpers of the handlers.                                                *)

\* parseInt((data.get('importance') || '0')) on the texts the model submits.
ParseImportance(text) ==
    CASE text = ""  -> 0
      [] text = "0" -> 0
      [] text = "1" -> 1
      [] text = "2" -> 2
      [] OTHER      -> 0

\* prepareTags(db, tags, owner) ($lib/utils/handle-tags-input): the ids of
\* the owner's tags with the given names, creating the tags that are missing.
RECURSIVE CreateTags(_, _, _, _)
CreateTags(table, next, names, owner) ==
    IF names = {} THEN [tags |-> table, next |-> next]
    ELSE LET n == CHOOSE x \in names : TRUE
         IN CreateTags(table \cup {[id |-> next, name |-> n, ownerId |-> owner]},
                       next + 1, names \ {n}, owner)

MissingTags(names, owner) ==
    {n \in names : ~\E t \in tags : t.name = n /\ t.ownerId = owner}

PrepareTags(names, owner) ==
    LET made == CreateTags(tags, nextTagId, MissingTags(names, owner), owner)
    IN [tags |-> made.tags, next |-> made.next,
        ids |-> {t.id : t \in {r \in made.tags : r.name \in names /\ r.ownerId = owner}}]

\* storeImage: the guard `url && checkIfImageURL(url)`; when it is false the
\* function returns undefined and stores nothing.
WillStore(url) == url # "" /\ CheckIfImageURL(url)

\* The row db.insert(bookmarkSchema).values(bookmarkData) creates. The text
\* columns (url, domain, description, author, content*, note, the two image
\* urls) are copied from the form like title, which stands for them; the
\* columns the insert does not name take the schema's defaults.
NewBookmarkRow(owner, title, categoryId, importance, flagged, openedDefault) ==
    [ownerId |-> owner, title |-> title, categoryId |-> categoryId,
     importance |-> importance, flagged |-> flagged, read |-> NullDate,
     openedTimes |-> openedDefault, openedLast |-> NullDate,
     mainImageId |-> None, iconId |-> None]

\* db.update(bookmarkSchema).set(bookmarkData): of the keys of bookmarkData,
\* `category`, `tags` and `owner` name no column (the columns are categoryId
\* and ownerId), so the statement leaves ownerId and categoryId as they are.
UpdatedBookmarkRow(row, title, importance, flagged) ==
    [row EXCEPT !.title = title, !.importance = importance, !.flagged = flagged]

\* .set({ mainImageId, iconId }): a key whose value is undefined is left out
\* of the UPDATE statement, so that column keeps its value.
ImagePatchIconAsMain(row, mainImageId, iconId) ==
    [row EXCEPT !.mainImageId = IF mainImageId = None THEN iconId ELSE mainImageId,
                !.iconId = IF iconId = None THEN @ ELSE iconId]
ImagePatch(row, mainImageId, iconId) ==
    [row EXCEPT !.mainImageId = IF mainImageId = None THEN @ ELSE mainImageId,
                !.iconId = IF iconId = None THEN @ ELSE iconId]

\* The join rows a handler inserts for a bookmark: one insert per tag id.
JoinRows(bookmarkId, tagIds) == {<<bookmarkId, t>> : t \in tagIds}

\* addNewBookmark's Promise.all of inserts into the join table.
AddJoinRowsDropLast(table, bookmarkId, tagIds) ==
    IF tagIds = {} THEN table
    ELSE table \cup JoinRows(bookmarkId, tagIds \ {CHOOSE t \in tagIds : \A u \in tagIds : u <= t})
AddJoinRows(table, bookmarkId, tagIds) ==
    table \cup JoinRows(bookmarkId, tagIds)

\* updateBookmark's Promise.all of inserts into the join table: rows are
\* only added; the rows of tags no longer submitted are not deleted.
UpdateJoinRowsReplacing(table, bookmarkId, tagIds) ==
    {r \in table : r[1] # bookmarkId} \cup JoinRows(bookmarkId, tagIds)
UpdateJoinRows(table, bookmarkId, tagIds) ==
    table \cup JoinRows(bookmarkId, tagIds)

\* The files table after storing `count` files for `owner`.
StoreFiles(owner, count) ==
    [i \in (DOMAIN files) \cup (nextFileId .. nextFileId + count - 1) |->
        IF i \in DOMAIN files THEN files[i] ELSE [ownerId |-> owner]]

\* The steps of the bookmark workflow at which the database, the network or
\* the parser can throw, in program order; "none": nothing throws.
StageNo(stage) ==
    CASE stage = "parse"     -> 1
      [] stage = "write"     -> 2
      [] stage = "join"      -> 3
      [] stage = "mainImage" -> 4
      [] stage = "iconImage" -> 5
      [] stage = "patch"     -> 6
      [] OTHER               -> 7

\* The step `stage` is passed without an exception when `fault` throws later.
Passed(stage, fault) == StageNo(stage) < StageNo(fault)

\* addNewBookmark's try { ... } catch: the steps whose exception the catch
\* block receives.
AddNewBookmarkCatchesUpToInsert(stage) == stage \in {"parse", "write"}
AddNewBookmarkCatches(stage) ==
    stage \in {"parse", "write", "join", "mainImage", "iconImage", "patch"}

\* `opened_times ?? 0 + 1`: + binds tighter than ??.
OpenedTimesWrittenIncrement(stored) ==
    (IF stored = None THEN 0 ELSE stored[1]) + 1
OpenedTimesWritten(stored) ==
    IF stored = None THEN 0 + 1 ELSE stored[1]

\* The rows updateIncreasedOpenedCount's UPDATE changes: it has no WHERE.
OpenedCountTargets(id) == DOMAIN bookmarks

----------------------------------------------------------------------------
(* The bookmark actions.                                                   *)

\* The environment's fault is one the run of the workflow can meet: the
\* parser throws exactly on malformed JSON, a join insert is rejected exactly
\* when `rejected` names it, an image step throws only if it fetches, and
\* the patch throws only if it is issued.
FaultIsMet(fault, categoryText, tagIds, rejected, mainImageUrl, iconUrl) ==
    /\ (fault = "parse") = (JSONParse(categoryText) = JInvalid)
    /\ (fault = "join") = (rejected # {})
    /\ rejected \subseteq tagIds
    /\ fault = "mainImage" => WillStore(mainImageUrl)
    /\ fault = "iconImage" => WillStore(iconUrl)
    /\ fault = "patch" => WillStore(mainImageUrl) \/ WillStore(iconUrl)

\* actions.addNewBookmark. The ids of inserted rows start at 1, so the
\* `!bookmark.id` return after the insert is never taken.
AddNewBookmark(user, title, importanceText, flaggedOn, categoryText, tagNames, mainImageUrl, iconUrl, fault, rejected, openedDefault) ==
    IF IsFalsyOwner(user)
    THEN /\ fault = "none" /\ rejected = {}
         /\ req' = Request("addNewBookmark", user, 0, {}, mainImageUrl, fault, "null")
         /\ resp' = Unauthorized
         /\ UNCHANGED db
    ELSE LET owner == user.id
             parsed == Passed("parse", fault)
             prepared == IF parsed THEN PrepareTags(tagNames, owner)
                         ELSE [tags |-> tags, next |-> nextTagId, ids |-> {}]
             tagIds == prepared.ids
             inserted == Passed("write", fault)
             newId == nextBookmarkId
             row == NewBookmarkRow(owner, title, ResolveValue(JSONParse(categoryText)),
                                   ParseImportance(importanceText), DateIfOn(flaggedOn),
                                   openedDefault)
             mainStored == Passed("mainImage", fault) /\ WillStore(mainImageUrl)
             iconStored == Passed("iconImage", fault) /\ WillStore(iconUrl)
             mainImageId == IF mainStored THEN Some(nextFileId) ELSE None
             iconId == IF iconStored
                       THEN Some(nextFileId + (IF mainStored THEN 1 ELSE 0)) ELSE None
             stored == (IF mainStored THEN 1 ELSE 0) + (IF iconStored THEN 1 ELSE 0)
             patched == fault = "none" /\ (mainImageId # None \/ iconId # None)
         IN /\ FaultIsMet(fault, categoryText, tagIds, rejected, mainImageUrl, iconUrl)
            /\ req' = Request("addNewBookmark", user, 0, tagIds, mainImageUrl,
                              fault, "null")
            /\ tags' = prepared.tags
            /\ nextTagId' = prepared.next
            /\ nextBookmarkId' = IF inserted THEN newId + 1 ELSE nextBookmarkId
            /\ bookmarks' =
                 IF ~inserted THEN bookmarks
                 ELSE (newId :> (IF patched THEN ImagePatch(row, mainImageId, iconId)
                                 ELSE row)) @@ bookmarks
            /\ bookmarksToTags' =
                 IF ~inserted THEN bookmarksToTags
                 ELSE AddJoinRows(bookmarksToTags, newId, tagIds \ rejected)
            /\ files' = StoreFiles(owner, stored)
            /\ nextFileId' = nextFileId + stored
            /\ resp' = IF fault = "none"
                       THEN Returned({"bookmark", "success"}, TRUE, "", newId)
                       ELSE IF AddNewBookmarkCatches(fault) THEN HandlePBError
                       ELSE Thrown
            /\ UNCHANGED <<categories, nextCategoryId, users>>

\* actions.deleteBookmark. Whether the rows of the join table that name the
\* bookmark go with it is the schema's choice (ON DELETE CASCADE or not).
DeleteBookmark(user, id, cascade) ==
    IF IsFalsyOwner(user)
    THEN /\ ~cascade
         /\ req' = SimpleRequest("deleteBookmark", user, id)
         /\ resp' = Unauthorized
         /\ UNCHANGED db
    ELSE /\ req' = SimpleRequest("deleteBookmark", user, id)
         /\ bookmarks' = [b \in (DOMAIN bookmarks) \ {id} |-> bookmarks[b]]
         /\ bookmarksToTags' = IF cascade THEN {r \in bookmarksToTags : r[1] # id}
                               ELSE bookmarksToTags
         /\ resp' = Returned({"id", "success"}, TRUE, "", id)
         /\ UNCHANGED <<nextBookmarkId, tags, nextTagId, files, nextFileId,
                        categories, nextCategoryId, users>>

\* actions.updateBookmark: no try/catch, every exception leaves the handler.
\* When no row has the id, `bookmark` is undefined and `bookmark.id` throws a
\* TypeError: in the first join insert, or else in the image patch.
UpdateBookmark(user, id, title, importanceText, flaggedOn, categoryText, tagNames, mainImageUrl, iconUrl, fault, rejected) ==
    IF IsFalsyOwner(user)
    THEN /\ fault = "none" /\ rejected = {}
         /\ req' = Request("updateBookmark", user, id, {}, mainImageUrl, fault, "null")
         /\ resp' = Unauthorized
         /\ UNCHANGED db
    ELSE LET owner == user.id
             exists == id \in DOMAIN bookmarks
             parsed == Passed("parse", fault)
             prepared == IF parsed THEN PrepareTags(tagNames, owner)
                         ELSE [tags |-> tags, next |-> nextTagId, ids |-> {}]
             tagIds == prepared.ids
             written == Passed("write", fault)
             typeErrorAtJoin == written /\ ~exists /\ tagIds # {}
             mainStored == Passed("mainImage", fault) /\ ~typeErrorAtJoin
                           /\ WillStore(mainImageUrl)
             iconStored == Passed("iconImage", fault) /\ ~typeErrorAtJoin
                           /\ WillStore(iconUrl)
             mainImageId == IF mainStored THEN Some(nextFileId) ELSE None
             iconId == IF iconStored
                       THEN Some(nextFileId + (IF mainStored THEN 1 ELSE 0)) ELSE None
             stored == (IF mainStored THEN 1 ELSE 0) + (IF iconStored THEN 1 ELSE 0)
             patchIssued == Passed("iconImage", fault) /\ ~typeErrorAtJoin
                            /\ (mainImageId # None \/ iconId # None)
             typeErrorAtPatch == patchIssued /\ ~exists
             patched == patchIssued /\ exists /\ fault = "none"
             row == UpdatedBookmarkRow(bookmarks[id], title,
                                       ParseImportance(importanceText), DateIfOn(flaggedOn))
         IN /\ FaultIsMet(fault, categoryText, tagIds, rejected, mainImageUrl, iconUrl)
            /\ fault = "join" => exists
            /\ fault = "patch" => exists
            /\ fault \in {"mainImage", "iconImage"} => ~typeErrorAtJoin
            /\ req' = Request("updateBookmark", user, id, tagIds, mainImageUrl,
                              fault, "null")
            /\ tags' = prepared.tags
            /\ nextTagId' = prepared.next
            /\ bookmarks' =
                 IF ~(written /\ exists) THEN bookmarks
                 ELSE [bookmarks EXCEPT ![id] =
                         IF patched THEN ImagePatch(row, mainImageId, iconId) ELSE row]
            /\ bookmarksToTags' =
                 IF ~(written /\ exists) THEN bookmarksToTags
                 ELSE UpdateJoinRows(bookmarksToTags, id, tagIds \ rejected)
            /\ files' = StoreFiles(owner, stored)
            /\ nextFileId' = nextFileId + stored
            /\ resp' = IF fault # "none" \/ typeErrorAtJoin \/ typeErrorAtPatch THEN Thrown
                       ELSE Returned({"bookmark", "success"}, TRUE, "",
                                     IF exists THEN id ELSE 0)
            /\ UNCHANGED <<nextBookmarkId, categories, nextCategoryId, users>>

\* actions.updateFlagged
UpdateFlagged(user, id, flaggedOn) ==
    /\ req' = SimpleRequest("updateFlagged", user, id)
    /\ IF IsFalsyOwner(user)
       THEN /\ resp' = Unauthorized
            /\ UNCHANGED db
       ELSE /\ bookmarks' = [b \in DOMAIN bookmarks |->
                               IF b = id THEN [bookmarks[b] EXCEPT !.flagged = DateIfOn(flaggedOn)]
                               ELSE bookmarks[b]]
            /\ resp' = Success
            /\ UNCHANGED <<nextBookmarkId, bookmarksToTags, tags, nextTagId, files,
                           nextFileId, categories, nextCategoryId, users>>

\* actions.updateImportance
UpdateImportance(user, id, importanceText) ==
    /\ req' = SimpleRequest("updateImportance", user, id)
    /\ IF IsFalsyOwner(user)
       THEN /\ resp' = Unauthorized
            /\ UNCHANGED db
       ELSE /\ bookmarks' = [b \in DOMAIN bookmarks |->
                               IF b = id
                               THEN [bookmarks[b] EXCEPT !.importance = ParseImportance(importanceText)]
                               ELSE bookmarks[b]]
            /\ resp' = Success
            /\ UNCHANGED <<nextBookmarkId, bookmarksToTags, tags, nextTagId, files,
                           nextFileId, categories, nextCategoryId, users>>

\* actions.updateRead
UpdateRead(user, id, readOn) ==
    /\ req' = SimpleRequest("updateRead", user, id)
    /\ IF IsFalsyOwner(user)
       THEN /\ resp' = Unauthorized
            /\ UNCHANGED db
       ELSE /\ bookmarks' = [b \in DOMAIN bookmarks |->
                               IF b = id THEN [bookmarks[b] EXCEPT !.read = DateIfOn(readOn)]
                               ELSE bookmarks[b]]
            /\ resp' = Success
            /\ UNCHANGED <<nextBookmarkId, bookmarksToTags, tags, nextTagId, files,
                           nextFileId, categories, nextCategoryId, users>>

\* actions.updateIncreasedOpenedCount. The SELECT of a missing id returns no
\* row, and destructuring `[{ opened_times }]` of it throws a TypeError.
UpdateIncreasedOpenedCount(user, id) ==
    /\ req' = SimpleRequest("updateIncreasedOpenedCount", user, id)
    /\ IF IsFalsyOwner(user)
       THEN /\ resp' = Unauthorized
            /\ UNCHANGED db
       ELSE IF id \notin DOMAIN bookmarks
       THEN /\ resp' = Thrown
            /\ UNCHANGED db
       ELSE /\ bookmarks' = [b \in DOMAIN bookmarks |->
                               IF b \in OpenedCountTargets(id)
                               THEN [bookmarks[b] EXCEPT
                                       !.openedTimes = Some(OpenedTimesWritten(bookmarks[id].openedTimes)),
                                       !.openedLast = NewDate]
                               ELSE bookmarks[b]]
            /\ resp' = Success
            /\ UNCHANGED <<nextBookmarkId, bookmarksToTags, tags, nextTagId, files,
                           nextFileId, categories, nextCategoryId, users>>

----------------------------------------------------------------------------
(* The category actions.                                                   *)

\* requestBody of addNewCategory and of updateCategory: the parent written.
ParentWritten(parentText) ==
    NormalizeParent(ResolveValue(JSONParse(parentText)))

\* actions.addNewCategory: JSON.parse of a malformed parent throws, and
\* nothing catches it.
AddNewCategory(user, name, parentText, archivedOn, publicOn) ==
    /\ req' = Request("addNewCategory", user, 0, {}, "", "none", parentText)
    /\ IF IsFalsyOwner(user)
       THEN /\ resp' = Unauthorized
            /\ UNCHANGED db
       ELSE IF JSONParse(parentText) = JInvalid
       THEN /\ resp' = Thrown
            /\ UNCHANGED db
       ELSE /\ categories' =
                 (nextCategoryId :>
                    [name |-> name, slug |-> CreateSlug(name),
                     parent |-> ParentWritten(parentText),
                     archived |-> DateIfOn(archivedOn), public |-> DateIfOn(publicOn),
                     owner |-> user.id, initial |-> FALSE,
                     created |-> NewDate, updated |-> NewDate]) @@ categories
            /\ nextCategoryId' = nextCategoryId + 1
            /\ resp' = Returned({"id", "success"}, TRUE, "", nextCategoryId)
            /\ UNCHANGED <<bookmarks, nextBookmarkId, bookmarksToTags, tags, nextTagId,
                           files, nextFileId, users>>

\* actions.updateCategory: owner and initial are not in the request body.
UpdateCategory(user, id, name, parentText, archivedOn, publicOn) ==
    /\ req' = Request("updateCategory", user, id, {}, "", "none", parentText)
    /\ IF IsFalsyOwner(user)
       THEN /\ resp' = Unauthorized
            /\ UNCHANGED db
       ELSE IF JSONParse(parentText) = JInvalid
       THEN /\ resp' = Thrown
            /\ UNCHANGED db
       ELSE /\ categories' = [c \in DOMAIN categories |->
                                IF c = id
                                THEN [categories[c] EXCEPT
                                        !.name = name, !.slug = CreateSlug(name),
                                        !.parent = ParentWritten(parentText),
                                        !.archived = DateIfOn(archivedOn),
                                        !.public = DateIfOn(publicOn),
                                        !.updated = NewDate]
                                ELSE categories[c]]
            /\ resp' = Success
            /\ UNCHANGED <<bookmarks, nextBookmarkId, bookmarksToTags, tags, nextTagId,
                           files, nextFileId, nextCategoryId, users>>

\* actions.deleteCategory: its unauthorized result carries no error.
DeleteCategory(user, id) ==
    /\ req' = SimpleRequest("deleteCategory", user, id)
    /\ IF IsFalsyOwner(user)
       THEN /\ resp' = BareFailure
            /\ UNCHANGED db
       ELSE /\ categories' = [c \in (DOMAIN categories) \ {id} |-> categories[c]]
            /\ resp' = Success
            /\ UNCHANGED <<bookmarks, nextBookmarkId, bookmarksToTags, tags, nextTagId,
                           files, nextFileId, nextCategoryId, users>>

----------------------------------------------------------------------------
(* The settings action.                                                    *)

\* A user's settings: the JSON text of an object with a theme and the other
\* keys (here the language), or text that does not parse.
Settings(theme, language) == <<"object", theme, language>>
BrokenSettings == <<"SyntaxError">>

\* actions.changeTheme: the parsed settings with `theme` replaced. The
\* try/catch receives the TypeError of a missing user row and the
\* SyntaxError of settings that do not parse.
ChangeTheme(user, theme) ==
    /\ req' = SimpleRequest("changeTheme", user, 0)
    /\ IF IsFalsyOwner(user)
       THEN /\ resp' = BareFailure
            /\ UNCHANGED db
       ELSE IF user.id \notin DOMAIN users \/ users[user.id].settings = BrokenSettings
       THEN /\ resp' = BareFailure
            /\ UNCHANGED db
       ELSE /\ users' = [users EXCEPT ![user.id].settings =
                            Settings(theme, users[user.id].settings[3])]
            /\ resp' = Success
            /\ UNCHANGED <<bookmarks, nextBookmarkId, bookmarksToTags, tags, nextTagId,
                           files, nextFileId, categories, nextCategoryId>>

----------------------------------------------------------------------------
(* Initial states: a database as earlier requests left it.                 *)

\* The users of the model; the settings of user 2 do not parse.
InitUsers ==
    (1 :> [settings |-> Settings("light", "en")]) @@ (2 :> [settings |-> BrokenSettings])

NoRequest == SimpleRequest("none", NoUser, 0)

\* Users, and no other row.
Init ==
    /\ bookmarks = << >>
    /\ nextBookmarkId = 1
    /\ bookmarksToTags = {}
    /\ tags = {}
    /\ nextTagId = 1
    /\ files = << >>
    /\ nextFileId = 1
    /\ categories = << >>
    /\ nextCategoryId = 1
    /\ users = InitUsers
    /\ req = NoRequest
    /\ resp = Success

\* Users, and one bookmark of user 2 that has been opened 5 times.
InitOpened ==
    /\ bookmarks = (1 :> [NewBookmarkRow(2, "a", JNull, 0, NullDate, Some(5))
                            EXCEPT !.openedLast = NewDate])
    /\ nextBookmarkId = 2
    /\ bookmarksToTags = {}
    /\ tags = {}
    /\ nextTagId = 1
    /\ files = << >>
    /\ nextFileId = 1
    /\ categories = << >>
    /\ nextCategoryId = 1
    /\ users = InitUsers
    /\ req = NoRequest
    /\ resp = Success

----------------------------------------------------------------------------
(* Specifications. Each draws the requests from the domains below; the     *)
(* handlers are the same in all of them.                                   *)

\* locals.user of a request: none, a user whose id is 0, users 1 and 2.
AnyUser == {NoUser, User(0), User(1), User(2)}
SignedIn == {User(1), User(2)}

TagNames == {"x", "y"}
Urls == {"", "https://x/page.html", "https://x/pic.png"}
IconUrls == {"", "https://x/pic.png"}
ParentTexts == {"null", "\"null\"", "0", "\"\"", "false", "1",
                "{\"value\":1}", "{\"value\":0}", "{\"value\":\"null\"}", "{"}
Faults == {"none", "parse", "write", "join", "mainImage", "iconImage", "patch"}
OpenedDefaults == {None, Some(0)}

\* The join inserts the environment rejects, given the step that throws:
\* some of the inserts of the tag ids handed out so far or in this request.
Rejections(fault) ==
    IF fault = "join" THEN (SUBSET (1 .. MaxTagId)) \ {{}} ELSE {{}}

\* The category field submitted, given the step that throws.
CategoryTexts(fault) ==
    IF fault = "parse" THEN {"{"} ELSE {"{\"value\":1}"}

\* The callers of the specification of all eleven actions: no user, a user
\* whose id is 0, and user 1. A handler that finds no owner returns before
\* it reads the form, so those requests submit the id 1.
AllCallers == {NoUser, User(0), User(1)}
AllIds(user, maxId) == IF IsFalsyOwner(user) THEN {1} ELSE 1 .. maxId

\* All eleven actions, with one value per form field.
NextAll ==
    \/ /\ nextBookmarkId <= MaxAllBookmarkId
       /\ \E user \in AllCallers :
            AddNewBookmark(user, "a", "", FALSE, "null", {}, "", "", "none", {}, Some(0))
    \/ \E user \in AllCallers : \E id \in AllIds(user, MaxAllBookmarkId) :
         DeleteBookmark(user, id, FALSE)
    \/ \E user \in AllCallers : \E id \in AllIds(user, MaxAllBookmarkId) :
         UpdateBookmark(user, id, "b", "", TRUE, "null", {}, "", "", "none", {})
    \/ \E user \in AllCallers : \E id \in AllIds(user, MaxAllBookmarkId) :
         UpdateFlagged(user, id, TRUE)
    \/ \E user \in AllCallers : \E id \in AllIds(user, MaxAllBookmarkId) :
         UpdateImportance(user, id, "")
    \/ \E user \in AllCallers : \E id \in AllIds(user, MaxAllBookmarkId) :
         UpdateRead(user, id, FALSE)
    \/ \E user \in AllCallers : \E id \in AllIds(user, MaxAllBookmarkId) :
         UpdateIncreasedOpenedCount(user, id)
    \/ /\ nextCategoryId <= MaxAllCategoryId
       /\ \E user \in AllCallers : AddNewCategory(user, "News", "null", FALSE, FALSE)
    \/ \E user \in AllCallers : \E id \in AllIds(user, MaxAllCategoryId) :
         UpdateCategory(user, id, "Dev Ops", "\"null\"", FALSE, FALSE)
    \/ \E user \in AllCallers : \E id \in AllIds(user, MaxAllCategoryId) :
         DeleteCategory(user, id)
    \/ \E user \in AllCallers : ChangeTheme(user, "dark")

Spec == Init /\ [][NextAll]_vars

\* The bookmark actions, by the two signed-in users.
NextPatches ==
    \/ \E user \in SignedIn :
         /\ nextBookmarkId <= MaxBookmarkId
         /\ AddNewBookmark(user, "a", "", FALSE, "null", {}, "", "", "none", {}, Some(0))
    \/ \E user \in SignedIn, id \in 1 .. MaxBookmarkId : DeleteBookmark(user, id, FALSE)
    \/ \E user \in SignedIn, id \in 1 .. MaxBookmarkId :
         UpdateBookmark(user, id, "b", "", FALSE, "null", {}, "", "", "none", {})
    \/ \E user \in SignedIn, id \in 1 .. MaxBookmarkId : UpdateFlagged(user, id, TRUE)
    \/ \E user \in SignedIn, id \in 1 .. MaxBookmarkId : UpdateImportance(user, id, "1")
    \/ \E user \in SignedIn, id \in 1 .. MaxBookmarkId : UpdateRead(user, id, TRUE)
    \/ \E user \in SignedIn, id \in 1 .. MaxBookmarkId :
         UpdateIncreasedOpenedCount(user, id)

SpecPatches == Init /\ [][NextPatches]_vars

\* The opened counter: bookmarks are created with either default of the
\* counter, opened (also with an id no row has), and deleted.
NextOpened ==
    \/ \E user \in SignedIn, opened \in OpenedDefaults :
         /\ nextBookmarkId <= MaxBookmarkId
         /\ AddNewBookmark(user, "a", "", FALSE, "null", {}, "", "", "none", {}, opened)
    \/ \E user \in AnyUser, id \in 1 .. MaxBookmarkId + 1 :
         UpdateIncreasedOpenedCount(user, id)
    \/ \E user \in SignedIn, id \in 1 .. MaxBookmarkId : DeleteBookmark(user, id, FALSE)

SpecOpened == InitOpened /\ [][NextOpened]_vars

\* Tags: user 1 creates and updates bookmarks with every set of tag names, a
\* join insert may be rejected, and bookmarks are deleted with or without
\* their join rows.
NextTags ==
    \/ \E names \in SUBSET TagNames, fault \in {"none", "join"} :
         \E rejected \in Rejections(fault) :
            /\ nextBookmarkId <= MaxTagBookmarkId
            /\ nextTagId + Cardinality(MissingTags(names, 1)) - 1 <= MaxTagId
            /\ AddNewBookmark(User(1), "a", "", FALSE, "null", names, "", "",
                              fault, rejected, Some(0))
    \/ \E id \in 1 .. MaxTagBookmarkId + 1, names \in SUBSET TagNames,
          fault \in {"none", "join"} :
         \E rejected \in Rejections(fault) :
            /\ nextTagId + Cardinality(MissingTags(names, 1)) - 1 <= MaxTagId
            /\ UpdateBookmark(User(1), id, "b", "", FALSE, "null", names, "", "",
                              fault, rejected)
    \/ \E id \in 1 .. MaxTagBookmarkId, cascade \in BOOLEAN :
         DeleteBookmark(User(1), id, cascade)

SpecTags == Init /\ [][NextTags]_vars

\* Images and faults: user 1 creates and updates bookmarks with an absent, a
\* non-image or an image main url and an absent or an image icon url; every
\* step of the creation may throw, and some steps of the update.
NextImages ==
    \/ /\ nextBookmarkId <= MaxImageBookmarkId
       /\ nextFileId + 1 <= MaxFileId
       /\ \E names \in SUBSET {"x"}, mainImageUrl \in Urls, iconUrl \in IconUrls,
             fault \in Faults :
            \E rejected \in Rejections(fault), categoryText \in CategoryTexts(fault) :
               AddNewBookmark(User(1), "a", "", FALSE, categoryText, names,
                              mainImageUrl, iconUrl, fault, rejected, Some(0))
    \/ /\ nextFileId + 1 <= MaxFileId
       /\ \E id \in 1 .. MaxImageBookmarkId + 1, names \in SUBSET {"x"},
             mainImageUrl \in Urls, iconUrl \in IconUrls,
             fault \in {"none", "write", "iconImage", "patch"} :
            \E rejected \in Rejections(fault), categoryText \in CategoryTexts(fault) :
               UpdateBookmark(User(1), id, "b", "", FALSE, categoryText, names,
                              mainImageUrl, iconUrl, fault, rejected)

SpecImages == Init /\ [][NextImages]_vars

\* Categories: created, updated and deleted with every parent text.
NextCategories ==
    \/ \E user \in SignedIn, parentText \in ParentTexts, on \in BOOLEAN :
         /\ nextCategoryId <= MaxCategoryId
         /\ AddNewCategory(user, "News", parentText, on, FALSE)
    \/ \E user \in SignedIn, id \in 1 .. MaxCategoryId, parentText \in ParentTexts :
         UpdateCategory(user, id, "Dev Ops", parentText, FALSE, TRUE)
    \/ \E user \in SignedIn, id \in 1 .. MaxCategoryId : DeleteCategory(user, id)

SpecCategories == Init /\ [][NextCategories]_vars

----------------------------------------------------------------------------
(* Properties.                                                             *)

\* C1: a request without an authenticated owner (locals.user missing, or its
\* id falsy) ends with a returned result whose success is false, and leaves
\* every table and every id sequence of the database as it was.
C1_UnauthenticatedCallIsInert ==
    [][(~req'.user.present \/ req'.user.id = 0)
          => /\ resp'.outcome = "returned"
             /\ "success" \in resp'.keys
             /\ resp'.success = FALSE
             /\ db' = db]_vars

\* C1 witness: the theme change of a user whose id is 0 was refused while
\* the database holds a bookmark and a category.
C1_Witness ==
    /\ req.action = "changeTheme"
    /\ req.user = User(0)
    /\ resp.success = FALSE
    /\ DOMAIN bookmarks # {}
    /\ DOMAIN categories # {}

\* C2 as claimed: an authorized updateIncreasedOpenedCount on a bookmark whose
\* stored counter is not null writes the counter 1.
C2_OpenedCountWritesOne ==
    [][(/\ req'.action = "updateIncreasedOpenedCount"
        /\ resp'.success
        /\ bookmarks[req'.id].openedTimes # None)
          => bookmarks'[req'.id].openedTimes = Some(1)]_vars

\* C2 amended: an authorized updateIncreasedOpenedCount writes the stored
\* counter itself when it is not null (5 stays 5), and 1 when it is null.
C2_OpenedCountWritesStoredValue ==
    [][(/\ req'.action = "updateIncreasedOpenedCount"
        /\ resp'.success)
          => bookmarks'[req'.id].openedTimes =
                IF bookmarks[req'.id].openedTimes = None THEN Some(1)
                ELSE bookmarks[req'.id].openedTimes]_vars

\* C2 witness: the bookmark just opened has the counter 5.
C2_Witness ==
    /\ req.action = "updateIncreasedOpenedCount"
    /\ resp.success
    /\ req.id \in DOMAIN bookmarks
    /\ bookmarks[req.id].openedTimes = Some(5)

\* C3: a successful updateBookmark removes no row of the join table: the
\* tags associated with a bookmark before the call are associated after it.
C3_UpdateBookmarkKeepsJoinRows ==
    [][(req'.action = "updateBookmark" /\ resp'.success)
          => bookmarksToTags \subseteq bookmarksToTags']_vars

\* C3 witness: after a successful updateBookmark that submitted tags, the
\* bookmark still has a tag that was not among them.
C3_Witness ==
    /\ req.action = "updateBookmark"
    /\ resp.success
    /\ req.tagIds # {}
    /\ \E r \in bookmarksToTags : r[1] = req.id /\ r[2] \notin req.tagIds

\* C4 as claimed: in addNewBookmark an exception of the parser or of the
\* initial insert is returned as a failure, and an exception of a join
\* insert or of the image patch leaves the handler uncaught.
C4_LateErrorsEscape ==
    (req.action = "addNewBookmark" /\ req.user.present /\ req.user.id # 0)
       => /\ req.fault \in {"parse", "write"}
               => resp.outcome = "returned" /\ ~resp.success
          /\ req.fault \in {"join", "patch"} => resp.outcome = "thrown"

\* C4 amended: in addNewBookmark every exception (of the parser, the initial
\* insert, a join insert, an image fetch or store, the image patch) is
\* caught and the handler returns the result of handlePBError.
C4_EveryErrorIsCaught ==
    (req.action = "addNewBookmark" /\ req.fault # "none")
       => resp.outcome = "returned" /\ resp = HandlePBError

\* C4 witness: a join insert of addNewBookmark was rejected after the
\* bookmark row was inserted, and the handler returned a failure.
C4_Witness ==
    /\ req.action = "addNewBookmark"
    /\ req.fault = "join"
    /\ resp.outcome = "returned"
    /\ ~resp.success
    /\ DOMAIN bookmarks # {}

\* C5: after a successful addNewBookmark whose main image url is absent or
\* is not an image url, the created bookmark has no main image id, whatever
\* the icon url was.
C5_NonImageMainUrlLeavesNoMainImage ==
    (/\ req.action = "addNewBookmark"
     /\ resp.success
     /\ ~(req.mainImageUrl # "" /\ req.mainImageUrl \in ImageURLs))
       => bookmarks[resp.id].mainImageId = None

\* C5 witness: a bookmark created with a non-image main url and an icon that
\* was archived: it has an icon id and no main image id.
C5_Witness ==
    /\ req.action = "addNewBookmark"
    /\ resp.success
    /\ req.mainImageUrl = "https://x/page.html"
    /\ bookmarks[resp.id].iconId # None
    /\ bookmarks[resp.id].mainImageId = None

\* C6 as claimed: every request without an authenticated owner returns
\* exactly { success: false, error: 'Unauthorized' }.
C6_UnauthorizedResultNamesError ==
    (req.action # "none" /\ (~req.user.present \/ req.user.id = 0))
       => /\ resp.outcome = "returned"
          /\ resp.keys = {"success", "error"}
          /\ resp.success = FALSE
          /\ resp.error = "Unauthorized"

\* The parent C7 claims is written: null when the resolved value is the
\* string 'null' or is falsy, the resolved value otherwise.
C7_ClaimedParent(parentText) ==
    LET parentValue == ResolveValue(JSONParse(parentText))
    IN IF parentValue = JStr("null") \/ ~Truthy(parentValue) THEN JNull ELSE parentValue

\* C7 as claimed: the category row addNewCategory inserted or updateCategory
\* updated has the parent null when the resolved parent value is 'null' or
\* falsy, and the resolved value otherwise.
C7_FalsyParentIsWrittenNull ==
    LET target == IF req.action = "addNewCategory" THEN resp.id ELSE req.id
    IN (/\ req.action \in {"addNewCategory", "updateCategory"}
        /\ resp.success
        /\ target \in DOMAIN categories)
          => categories[target].parent = C7_ClaimedParent(req.parent)

\* C8: after a successful addNewBookmark the join rows of the new bookmark
\* are exactly one per resolved tag id, and the call added no join row of
\* any other bookmark.
C8_OneJoinRowPerTag ==
    [][(req'.action = "addNewBookmark" /\ resp'.success)
          => LET rows == {r \in bookmarksToTags' : r[1] = resp'.id}
             IN /\ rows = {<<resp'.id, t>> : t \in req'.tagIds}
                /\ Cardinality(rows) = Cardinality(req'.tagIds)
                /\ (bookmarksToTags' \ bookmarksToTags) \subseteq rows]_vars

\* C8 witness: a bookmark was created with two tags.
C8_Witness ==
    /\ req.action = "addNewBookmark"
    /\ resp.success
    /\ Cardinality(req.tagIds) = 2
    /\ Cardinality({r \in bookmarksToTags : r[1] = resp.id}) = 2

\* C9 as claimed: an authorized updateIncreasedOpenedCount with id X leaves
\* openedTimes and openedLast of every other bookmark unchanged.
C9_OpenedCountPatchIsNarrow ==
    [][(req'.action = "updateIncreasedOpenedCount" /\ resp'.success)
          => \A b \in (DOMAIN bookmarks) \ {req'.id} :
                /\ bookmarks'[b].openedTimes = bookmarks[b].openedTimes
                /\ bookmarks'[b].openedLast = bookmarks[b].openedLast]_vars

\* C10 as claimed: a bookmark row is created, changed or deleted only by a
\* request whose authenticated user is the owner of the row.
C10_OnlyOwnerTouchesBookmark ==
    [][/\ \A b \in DOMAIN bookmarks :
            (b \notin DOMAIN bookmarks' \/ bookmarks'[b] # bookmarks[b])
               => req'.user.present /\ req'.user.id = bookmarks[b].ownerId
       /\ \A b \in (DOMAIN bookmarks') \ DOMAIN bookmarks :
            req'.user.present /\ req'.user.id = bookmarks'[b].ownerId]_vars

============================================================================
